---- MODULE Spec2Model ----
(***************************************************************************)
(* Notes/tasks web application: the Express API of server.js over the      *)
(* SQLite schema of db.js, and the browser script that drives it.          *)
(*                                                                         *)
(* JSON values are tagged pairs <<type, payload>>; a string's payload is   *)
(* its sequence of characters, so that truthiness, ??, COALESCE and trim   *)
(* are computed the way JavaScript and SQLite compute them.                *)
(***************************************************************************)
EXTENDS Integers, Sequences, FiniteSets, TLC

VARIABLES
    users,      \* rows of table users
    userSeq,    \* AUTOINCREMENT counter of users
    notes,      \* rows of table notes
    noteSeq,    \* AUTOINCREMENT counter of notes
    tasks,      \* rows of table tasks
    taskSeq,    \* AUTOINCREMENT counter of tasks
    now,        \* CURRENT_TIMESTAMP, seconds
    hashing,    \* signup handlers suspended at `await bcrypt.hash`
    req,        \* the request whose response was sent last
    res,        \* that response
    location,   \* window.location.href of the browser
    tokenCookie, \* the browser's token cookie
    net,        \* the page's fetch calls that have not settled
    fetchSeq,   \* fetch calls made so far
    userName,   \* text of #user-name
    notesList,  \* children of #notes-list
    tasksList   \* children of #tasks-list

server == <<users, userSeq, notes, noteSeq, tasks, taskSeq, now, hashing, req, res>>
store == <<users, userSeq, notes, noteSeq, tasks, taskSeq>>
client == <<location, tokenCookie, net, fetchSeq, userName, notesList, tasksList>>
vars == <<server, client>>

\* No page is open
NoClient ==
    /\ location = ""
    /\ tokenCookie = <<"none", 0, "", 0>>
    /\ net = {}
    /\ fetchSeq = 0
    /\ userName = <<>>
    /\ notesList = <<>>
    /\ tasksList = <<>>

Idle == UNCHANGED client

----------------------------------------------------------------------------
(* Bounds *)

\* Rows ever inserted into notes
MaxNotes == 1
\* Rows ever inserted into tasks
MaxTasks == 1
\* Last value of the clock
MaxTime == 1
\* Signup handlers suspended at once
MaxHashing == 2
\* fetch calls one page makes
MaxFetches == 5

----------------------------------------------------------------------------
(* JSON values and the JavaScript operators the handlers apply to them *)

JUndefined == <<"undefined", <<>>>>
JNull == <<"null", <<>>>>
JString(s) == <<"string", s>>
JNumber(n) == <<"number", n>>
JTrue == <<"boolean", <<"t", "r", "u", "e">>>>
JFalse == <<"boolean", <<"f", "a", "l", "s", "e">>>>

\* !!v
Truthy(v) ==
    \/ v[1] = "string" /\ v[2] # <<>>
    \/ v = JTrue

\* v ?? null
OrNull(v) == IF v[1] \in {"undefined", "null"} THEN JNull ELSE v

\* A flag that is set whenever the body holds one: completed === undefined ? null : 1
CompletedPresent(completed) ==
    IF completed[1] = "undefined" THEN JNull ELSE JNumber(1)

\* completed === undefined ? null : completed ? 1 : 0
CompletedValue(completed) ==
    IF completed[1] = "undefined" THEN JNull
    ELSE IF Truthy(completed) THEN JNumber(1) ELSE JNumber(0)

\* SQL COALESCE(param, column) on a bound parameter (NULL or a value)
Coalesce(param, column) == IF param[1] = "null" THEN column ELSE param[2]

IsSpace(c) == c \in {" "}

RECURSIVE TrimStart(_)
TrimStart(s) ==
    IF s # <<>> /\ IsSpace(Head(s)) THEN TrimStart(Tail(s)) ELSE s

RECURSIVE TrimEnd(_)
TrimEnd(s) ==
    IF s # <<>> /\ IsSpace(s[Len(s)]) THEN TrimEnd(SubSeq(s, 1, Len(s) - 1)) ELSE s

\* String.prototype.trim
Trim(s) == TrimEnd(TrimStart(s))

----------------------------------------------------------------------------
(* Tokens *)

JWT_SECRET == "dev_secret_change_me"

\* expiresIn: "7d", in seconds
ExpiresIn == 604800

NoToken == <<"none", 0, "", 0>>

\* jwt.sign({ userId }, JWT_SECRET, { expiresIn: "7d" }) at time t
createJwtToken(userId, t) == <<"jwt", userId, JWT_SECRET, t + ExpiresIn>>

\* jwt.decode in place of jwt.verify: neither signature nor expiry is checked
JwtDecodes(token, t) == token[1] = "jwt"

\* jwt.verify(token, JWT_SECRET) at time t: does it return (TRUE) or throw
JwtVerifies(token, t) ==
    /\ token[1] = "jwt"
    /\ token[3] = JWT_SECRET
    /\ t < token[4]

\* Authorization header: <<scheme, credentials>>; <<"", NoToken>> when absent
NoHeader == <<"", NoToken>>

getTokenFromRequest(r) ==
    IF r.authorization # NoHeader /\ r.authorization[1] = "Bearer"
    THEN r.authorization[2]
    ELSE IF r.cookie # NoToken THEN r.cookie
    ELSE NoToken

\* What authMiddleware does with the request: the response it sends itself, or
\* "next" with req.userId set
authMiddleware(r) ==
    LET token == getTokenFromRequest(r) IN
    IF token = NoToken
    THEN [next |-> FALSE, status |-> 401, error |-> "Unauthorized", userId |-> 0]
    ELSE IF JwtVerifies(token, now)
    THEN [next |-> TRUE, status |-> 0, error |-> "", userId |-> token[2]]
    ELSE [next |-> FALSE, status |-> 401, error |-> "Invalid or expired token", userId |-> 0]

----------------------------------------------------------------------------
(* Requests and responses *)

NoBody ==
    [name |-> JUndefined, email |-> JUndefined, password |-> JUndefined,
     title |-> JUndefined, content |-> JUndefined, completed |-> JUndefined]

Request(op, authorization, cookie, id, body) ==
    [op |-> op, authorization |-> authorization, cookie |-> cookie, id |-> id,
     body |-> body, userId |-> 0]

NoRequest == Request("", NoHeader, NoToken, 0, NoBody)

\* res.status(s).json(...) with the cookie the handler set
Response(status, error, rows, cookie) ==
    [status |-> status, error |-> error, rows |-> rows, cookie |-> cookie]

NoCookie == <<"", NoToken>>
SetCookie(token) == <<"set", token>>
ClearCookie == <<"clear", NoToken>>

NoResponse == Response(0, "", <<>>, NoCookie)

----------------------------------------------------------------------------
(* Store: the tables of db.js and the statements the handlers run on them *)

\* bcrypt.hash(password, 10): the salted digest is a function of the password
\* that only bcrypt.compare maps back to it
BcryptHash(password) == <<"$2b$10$">> \o password

\* A comparison that only looks whether there is a hash
BcryptCompareAny(password, hash) == hash # <<>>

\* bcrypt.compare(password, hash)
BcryptCompare(password, hash) == hash = BcryptHash(password)

UserRow(id, name, email, password_hash, created_at) ==
    [id |-> id, name |-> name, email |-> email, password_hash |-> password_hash,
     created_at |-> created_at]

NoteRow(id, user_id, title, content, created_at, updated_at) ==
    [id |-> id, user_id |-> user_id, title |-> title, content |-> content,
     created_at |-> created_at, updated_at |-> updated_at]

TaskRow(id, user_id, title, completed, created_at, updated_at) ==
    [id |-> id, user_id |-> user_id, title |-> title, completed |-> completed,
     created_at |-> created_at, updated_at |-> updated_at]

\* SELECT * FROM users WHERE email = ?   (email is UNIQUE)
getUserByEmail(email) == {u \in users : u.email = email}

\* SELECT id, name, email, created_at FROM users WHERE id = ?
getUserById(table, id) ==
    {[id |-> u.id, name |-> u.name, email |-> u.email, created_at |-> u.created_at] :
        u \in {x \in table : x.id = id}}

\* SELECT id, title, content, created_at, updated_at
NoteColumns(n) ==
    [id |-> n.id, title |-> n.title, content |-> n.content,
     created_at |-> n.created_at, updated_at |-> n.updated_at]

\* SELECT id, title, completed, created_at, updated_at
TaskColumns(t) ==
    [id |-> t.id, title |-> t.title, completed |-> t.completed,
     created_at |-> t.created_at, updated_at |-> t.updated_at]

\* WHERE user_id = ?
OwnedBy(row, userId) == row.user_id = userId

\* A WHERE clause that forgets the owner
AnyRow(row, id, userId) == row.id = id

\* WHERE id = ? AND user_id = ?
OwnRow(row, id, userId) == row.id = id /\ row.user_id = userId

\* The orders in which ORDER BY updated_at DESC may return a set of rows: rows
\* with equal updated_at come in any order
OrderByUpdatedDesc(rows) ==
    {s \in [1..Cardinality(rows) -> rows] :
        /\ \A i, j \in DOMAIN s : i < j =>
              /\ s[i] # s[j]
              /\ s[i].updated_at >= s[j].updated_at}

\* A set of at most one row as the rows of a response
OneRow(rows) == IF rows = {} THEN <<>> ELSE <<CHOOSE x \in rows : TRUE>>

----------------------------------------------------------------------------
(* Handlers of server.js. Each sets req to the request it answers (with the
   userId authMiddleware put on it) and res to the response it sends. *)

\* authMiddleware answered the request itself: the route handler does not run
Rejected(r, auth) ==
    /\ req' = r
    /\ res' = Response(auth.status, auth.error, <<>>, NoCookie)
    /\ UNCHANGED <<store, now, hashing>>

\* app.post("/api/auth/signup"), up to `await bcrypt.hash`
SignupStart(r) ==
    /\ r.op = "POST /api/auth/signup"
    /\ IF ~Truthy(r.body.name) \/ ~Truthy(r.body.email) \/ ~Truthy(r.body.password)
       THEN /\ req' = r
            /\ res' = Response(400, "name, email and password are required", <<>>, NoCookie)
            /\ UNCHANGED hashing
       ELSE IF getUserByEmail(r.body.email[2]) # {}
       THEN /\ req' = r
            /\ res' = Response(409, "Email already in use", <<>>, NoCookie)
            /\ UNCHANGED hashing
       ELSE /\ Len(hashing) < MaxHashing
            /\ hashing' = Append(hashing, r)
            /\ UNCHANGED <<req, res>>
    /\ UNCHANGED <<store, now>>

\* app.post("/api/auth/signup"), from the INSERT on, for the i-th suspended
\* handler. The INSERT throws on the UNIQUE constraint of users.email and the
\* catch block answers 500.
SignupResume(i) ==
    LET r == hashing[i]
        passwordHash == BcryptHash(r.body.password[2])
        userId == userSeq + 1
        inserted == users \cup
            {UserRow(userId, r.body.name[2], r.body.email[2], passwordHash, now)}
    IN
    /\ hashing' = SubSeq(hashing, 1, i - 1) \o SubSeq(hashing, i + 1, Len(hashing))
    /\ req' = r
    /\ IF \E u \in users : u.email = r.body.email[2]
       THEN /\ res' = Response(500, "Internal server error", <<>>, NoCookie)
            /\ UNCHANGED <<users, userSeq>>
       ELSE /\ users' = inserted
            /\ userSeq' = userId
            /\ res' = Response(200, "", OneRow(getUserById(inserted, userId)),
                               SetCookie(createJwtToken(userId, now)))
    /\ UNCHANGED <<notes, noteSeq, tasks, taskSeq, now>>

\* app.post("/api/auth/signin"). The handler reads nothing but the row it
\* fetched before `await bcrypt.compare`, and rows of users never change, so
\* its two halves are one step.
Signin(r) ==
    /\ r.op = "POST /api/auth/signin"
    /\ req' = r
    /\ IF ~Truthy(r.body.email) \/ ~Truthy(r.body.password)
       THEN res' = Response(400, "email and password are required", <<>>, NoCookie)
       ELSE LET found == getUserByEmail(r.body.email[2]) IN
            IF found = {}
            THEN res' = Response(401, "Invalid credentials", <<>>, NoCookie)
            ELSE LET user == CHOOSE u \in found : TRUE IN
                 IF ~BcryptCompare(r.body.password[2], user.password_hash)
                 THEN res' = Response(401, "Invalid credentials", <<>>, NoCookie)
                 ELSE res' = Response(200, "", OneRow(getUserById(users, user.id)),
                                      SetCookie(createJwtToken(user.id, now)))
    /\ UNCHANGED <<store, now, hashing>>

\* app.post("/api/auth/signout")
Signout(r) ==
    /\ r.op = "POST /api/auth/signout"
    /\ req' = r
    /\ res' = Response(200, "", <<>>, ClearCookie)
    /\ UNCHANGED <<store, now, hashing>>

\* app.get("/api/me")
Me(r) ==
    LET auth == authMiddleware(r) IN
    /\ r.op = "GET /api/me"
    /\ IF ~auth.next THEN Rejected(r, auth)
       ELSE LET user == getUserById(users, auth.userId) IN
            /\ req' = [r EXCEPT !.userId = auth.userId]
            /\ res' = IF user = {}
                      THEN Response(404, "User not found", <<>>, NoCookie)
                      ELSE Response(200, "", OneRow(user), NoCookie)
            /\ UNCHANGED <<store, now, hashing>>

----------------------------------------------------------------------------
(* Notes endpoints *)

\* app.get("/api/notes")
NotesGet(r) ==
    LET auth == authMiddleware(r) IN
    /\ r.op = "GET /api/notes"
    /\ IF ~auth.next THEN Rejected(r, auth)
       ELSE /\ req' = [r EXCEPT !.userId = auth.userId]
            /\ \E rows \in OrderByUpdatedDesc(
                     {NoteColumns(n) : n \in {x \in notes : OwnedBy(x, auth.userId)}}) :
                  res' = Response(200, "", rows, NoCookie)
            /\ UNCHANGED <<store, now, hashing>>

\* app.post("/api/notes")
NotesPost(r) ==
    LET auth == authMiddleware(r)
        title == r.body.title
        content == r.body.content
        id == noteSeq + 1
        inserted == notes \cup {NoteRow(id, auth.userId, title[2], content[2], now, now)}
    IN
    /\ r.op = "POST /api/notes"
    /\ IF ~auth.next THEN Rejected(r, auth)
       ELSE /\ req' = [r EXCEPT !.userId = auth.userId]
            /\ IF ~Truthy(title) \/ ~Truthy(content)
               THEN /\ res' = Response(400, "title and content are required", <<>>, NoCookie)
                    /\ UNCHANGED <<notes, noteSeq>>
               ELSE /\ noteSeq < MaxNotes
                    /\ notes' = inserted
                    /\ noteSeq' = id
                    /\ res' = Response(201, "",
                           OneRow({NoteColumns(n) : n \in {x \in inserted : x.id = id}}),
                           NoCookie)
            /\ UNCHANGED <<users, userSeq, tasks, taskSeq, now, hashing>>

\* UPDATE notes SET title = COALESCE(?, title), content = COALESCE(?, content)
\* WHERE id = ? AND user_id = ?, and the trigger notes_updated_at it fires
UpdateNote(n, title, content, noteId, userId) ==
    IF OwnRow(n, noteId, userId)
    THEN [n EXCEPT !.title = Coalesce(title, n.title),
                   !.content = Coalesce(content, n.content),
                   !.updated_at = now]
    ELSE n

\* app.put("/api/notes/:id")
NotesPut(r) ==
    LET auth == authMiddleware(r)
        noteId == r.id
        existing == {n \in notes : OwnRow(n, noteId, auth.userId)}
        updated == {UpdateNote(n, OrNull(r.body.title), OrNull(r.body.content),
                               noteId, auth.userId) : n \in notes}
    IN
    /\ r.op = "PUT /api/notes/:id"
    /\ IF ~auth.next THEN Rejected(r, auth)
       ELSE /\ req' = [r EXCEPT !.userId = auth.userId]
            /\ IF existing = {}
               THEN /\ res' = Response(404, "Note not found", <<>>, NoCookie)
                    /\ UNCHANGED notes
               ELSE /\ notes' = updated
                    /\ res' = Response(200, "",
                           OneRow({NoteColumns(n) : n \in {x \in updated : x.id = noteId}}),
                           NoCookie)
            /\ UNCHANGED <<users, userSeq, noteSeq, tasks, taskSeq, now, hashing>>

\* app.delete("/api/notes/:id")
NotesDelete(r) ==
    LET auth == authMiddleware(r)
        noteId == r.id
        deleted == {n \in notes : OwnRow(n, noteId, auth.userId)}
    IN
    /\ r.op = "DELETE /api/notes/:id"
    /\ IF ~auth.next THEN Rejected(r, auth)
       ELSE /\ req' = [r EXCEPT !.userId = auth.userId]
            /\ notes' = notes \ deleted
            /\ res' = IF Cardinality(deleted) = 0
                      THEN Response(404, "Note not found", <<>>, NoCookie)
                      ELSE Response(200, "", <<>>, NoCookie)
            /\ UNCHANGED <<users, userSeq, noteSeq, tasks, taskSeq, now, hashing>>

----------------------------------------------------------------------------
(* Tasks endpoints *)

\* app.get("/api/tasks")
TasksGet(r) ==
    LET auth == authMiddleware(r) IN
    /\ r.op = "GET /api/tasks"
    /\ IF ~auth.next THEN Rejected(r, auth)
       ELSE /\ req' = [r EXCEPT !.userId = auth.userId]
            /\ \E rows \in OrderByUpdatedDesc(
                     {TaskColumns(t) : t \in {x \in tasks : OwnedBy(x, auth.userId)}}) :
                  res' = Response(200, "", rows, NoCookie)
            /\ UNCHANGED <<store, now, hashing>>

\* app.post("/api/tasks")
TasksPost(r) ==
    LET auth == authMiddleware(r)
        title == r.body.title
        id == taskSeq + 1
        inserted == tasks \cup {TaskRow(id, auth.userId, title[2], 0, now, now)}
    IN
    /\ r.op = "POST /api/tasks"
    /\ IF ~auth.next THEN Rejected(r, auth)
       ELSE /\ req' = [r EXCEPT !.userId = auth.userId]
            /\ IF ~Truthy(title)
               THEN /\ res' = Response(400, "title is required", <<>>, NoCookie)
                    /\ UNCHANGED <<tasks, taskSeq>>
               ELSE /\ taskSeq < MaxTasks
                    /\ tasks' = inserted
                    /\ taskSeq' = id
                    /\ res' = Response(201, "",
                           OneRow({TaskColumns(t) : t \in {x \in inserted : x.id = id}}),
                           NoCookie)
            /\ UNCHANGED <<users, userSeq, notes, noteSeq, now, hashing>>

\* UPDATE tasks SET title = COALESCE(?, title), completed = COALESCE(?, completed)
\* WHERE id = ? AND user_id = ?, and the trigger tasks_updated_at it fires
UpdateTask(t, title, completedValue, taskId, userId) ==
    IF OwnRow(t, taskId, userId)
    THEN [t EXCEPT !.title = Coalesce(title, t.title),
                   !.completed = Coalesce(completedValue, t.completed),
                   !.updated_at = now]
    ELSE t

\* app.put("/api/tasks/:id")
TasksPut(r) ==
    LET auth == authMiddleware(r)
        taskId == r.id
        existing == {t \in tasks : OwnRow(t, taskId, auth.userId)}
        updated == {UpdateTask(t, OrNull(r.body.title), CompletedValue(r.body.completed),
                               taskId, auth.userId) : t \in tasks}
    IN
    /\ r.op = "PUT /api/tasks/:id"
    /\ IF ~auth.next THEN Rejected(r, auth)
       ELSE /\ req' = [r EXCEPT !.userId = auth.userId]
            /\ IF existing = {}
               THEN /\ res' = Response(404, "Task not found", <<>>, NoCookie)
                    /\ UNCHANGED tasks
               ELSE /\ tasks' = updated
                    /\ res' = Response(200, "",
                           OneRow({TaskColumns(t) : t \in {x \in updated : x.id = taskId}}),
                           NoCookie)
            /\ UNCHANGED <<users, userSeq, notes, noteSeq, taskSeq, now, hashing>>

\* app.delete("/api/tasks/:id")
TasksDelete(r) ==
    LET auth == authMiddleware(r)
        taskId == r.id
        deleted == {t \in tasks : OwnRow(t, taskId, auth.userId)}
    IN
    /\ r.op = "DELETE /api/tasks/:id"
    /\ IF ~auth.next THEN Rejected(r, auth)
       ELSE /\ req' = [r EXCEPT !.userId = auth.userId]
            /\ tasks' = tasks \ deleted
            /\ res' = IF Cardinality(deleted) = 0
                      THEN Response(404, "Task not found", <<>>, NoCookie)
                      ELSE Response(200, "", <<>>, NoCookie)
            /\ UNCHANGED <<users, userSeq, notes, noteSeq, taskSeq, now, hashing>>

\* A second passes on the server's clock
Tick ==
    /\ now < MaxTime
    /\ now' = now + 1
    /\ UNCHANGED <<store, hashing, req, res>>

----------------------------------------------------------------------------
(* Inputs *)

Names == {JUndefined, JString(<<"n">>)}
Emails == {JUndefined, JString(<<"a">>), JString(<<"b">>)}
Passwords == {JUndefined, JString(<<"p">>), JString(<<"q">>)}
Titles == {JUndefined, JNull, JString(<<>>), JString(<<" ">>), JString(<<"t">>)}
Contents == {JUndefined, JNull, JString(<<>>), JString(<<" ">>), JString(<<"c">>)}
Completeds == {JUndefined, JNull, JTrue, JFalse}

NoteBodies == {[NoBody EXCEPT !.title = t, !.content = c] : t \in Titles, c \in Contents}
TaskCreateBodies == {[NoBody EXCEPT !.title = t] : t \in Titles}
TaskBodies == {[NoBody EXCEPT !.title = t, !.completed = c] : t \in Titles, c \in Completeds}
SignupBodies ==
    {[NoBody EXCEPT !.name = n, !.email = e, !.password = p] :
        n \in Names, e \in Emails, p \in Passwords}
SigninBodies ==
    {[NoBody EXCEPT !.email = e, !.password = p] : e \in Emails, p \in Passwords}

\* The token the server issued to an account at time 0
SessionToken(userId) == createJwtToken(userId, 0)
SessionTokens == {SessionToken(u.id) : u \in users}

\* Tokens that do not verify: one that expired at time 0, one signed with
\* another secret, and a string that is no JWT
ExpiredToken == <<"jwt", 1, JWT_SECRET, 0>>
ForgedToken == <<"jwt", 1, "secret", ExpiresIn>>
MalformedToken == <<"garbage", 0, "", 0>>

Requests(op, headers, cookies, ids, bodies) ==
    {Request(op, h, c, id, b) : h \in headers, c \in cookies, id \in ids, b \in bodies}

----------------------------------------------------------------------------
(* The accounts API on a new database *)

InitAccounts ==
    /\ users = {}
    /\ userSeq = 0
    /\ notes = {}
    /\ noteSeq = 0
    /\ tasks = {}
    /\ taskSeq = 0
    /\ now = 0
    /\ hashing = <<>>
    /\ req = NoRequest
    /\ res = NoResponse
    /\ NoClient

NextAccounts ==
    \/ \E b \in SignupBodies :
          SignupStart(Request("POST /api/auth/signup", NoHeader, NoToken, 0, b)) /\ Idle
    \/ \E i \in DOMAIN hashing : SignupResume(i) /\ Idle
    \/ \E b \in SigninBodies :
          Signin(Request("POST /api/auth/signin", NoHeader, NoToken, 0, b)) /\ Idle
    \/ \E t \in SessionTokens \cup {NoToken} :
          Signout(Request("POST /api/auth/signout", NoHeader, t, 0, NoBody)) /\ Idle
    \/ \E t \in SessionTokens \cup {ExpiredToken, NoToken} :
          Me(Request("GET /api/me", NoHeader, t, 0, NoBody)) /\ Idle

SpecAccounts == InitAccounts /\ [][NextAccounts]_vars

----------------------------------------------------------------------------
(* The protected API on a database with two signed-up accounts *)

TwoAccounts ==
    {UserRow(1, <<"n">>, <<"a">>, BcryptHash(<<"p">>), 0),
     UserRow(2, <<"n">>, <<"b">>, BcryptHash(<<"q">>), 0)}

InitApi ==
    /\ users = TwoAccounts
    /\ userSeq = 2
    /\ notes = {}
    /\ noteSeq = 0
    /\ tasks = {}
    /\ taskSeq = 0
    /\ now = 0
    /\ hashing = <<>>
    /\ req = NoRequest
    /\ res = NoResponse
    /\ NoClient

\* One request to a protected endpoint, its credentials and body drawn from
\* the given sets
Api(headers, cookies, noteCreate, noteUpdate, taskCreate, taskUpdate) ==
    \/ \E r \in Requests("GET /api/me", headers, cookies, {0}, {NoBody}) : Me(r) /\ Idle
    \/ \E r \in Requests("GET /api/notes", headers, cookies, {0}, {NoBody}) : NotesGet(r) /\ Idle
    \/ \E r \in Requests("POST /api/notes", headers, cookies, {0}, noteCreate) : NotesPost(r) /\ Idle
    \/ \E r \in Requests("PUT /api/notes/:id", headers, cookies, 1..MaxNotes, noteUpdate) :
          NotesPut(r) /\ Idle
    \/ \E r \in Requests("DELETE /api/notes/:id", headers, cookies, 1..MaxNotes, {NoBody}) :
          NotesDelete(r) /\ Idle
    \/ \E r \in Requests("GET /api/tasks", headers, cookies, {0}, {NoBody}) : TasksGet(r) /\ Idle
    \/ \E r \in Requests("POST /api/tasks", headers, cookies, {0}, taskCreate) : TasksPost(r) /\ Idle
    \/ \E r \in Requests("PUT /api/tasks/:id", headers, cookies, 1..MaxTasks, taskUpdate) :
          TasksPut(r) /\ Idle
    \/ \E r \in Requests("DELETE /api/tasks/:id", headers, cookies, 1..MaxTasks, {NoBody}) :
          TasksDelete(r) /\ Idle

\* Every body of the bounded input sets, sent by the browser session of
\* account 1, while time passes
NextCrud ==
    \/ Api({NoHeader}, {SessionToken(1)}, NoteBodies, NoteBodies, TaskCreateBodies, TaskBodies)
    \/ Tick /\ Idle

SpecCrud == InitApi /\ [][NextCrud]_vars

\* Both accounts creating, updating and deleting records
NextOwnership ==
    Api({NoHeader}, {SessionToken(1), SessionToken(2)},
        {[NoBody EXCEPT !.title = JString(<<"t">>), !.content = JString(<<"c">>)]},
        {[NoBody EXCEPT !.title = JString(<<"u">>)]},
        {[NoBody EXCEPT !.title = JString(<<"t">>)]},
        {[NoBody EXCEPT !.completed = JTrue]})

SpecOwnership == InitApi /\ [][NextOwnership]_vars

\* Every way of presenting a token, or none
AuthHeaders == {NoHeader, <<"Basic", NoToken>>, <<"Bearer", SessionToken(2)>>}
AuthCookies == {NoToken, SessionToken(1), ExpiredToken, ForgedToken, MalformedToken}

NextAuth ==
    Api(AuthHeaders, AuthCookies,
        {[NoBody EXCEPT !.title = JString(<<"t">>), !.content = JString(<<"c">>)]},
        {NoBody},
        {[NoBody EXCEPT !.title = JString(<<"t">>)]},
        {NoBody})

SpecAuth == InitApi /\ [][NextAuth]_vars

----------------------------------------------------------------------------
(* The browser script. A fetch call is a message of net: "sent" until the
   server handles it, then "answered" with the response, or "failed" when the
   network drops it; `then` names the code that awaits it. *)

\* fetch(path, { credentials: 'include', ... }): the n-th call of the page
Fetch(n, op, id, body, then) ==
    [fid |-> n, request |-> Request(op, NoHeader, tokenCookie, id, body),
     state |-> "sent", response |-> NoResponse, then |-> then]

\* api() resolves with the body of a 2xx response
Resolves(m) ==
    /\ m.state = "answered"
    /\ m.response.status # 401
    /\ m.response.status \in 200..299

\* api() saw status 401 and set window.location.href
Redirects(m) == m.state = "answered" /\ m.response.status = 401

\* A render that keeps the children the container had
AppendList(children, elements) == children \o elements

\* container.innerHTML = '' and one appendChild per element
ReplaceList(children, elements) == elements

\* The card renderNotes builds for a note: the note its buttons close over
NoteCard(note) == note

\* The row renderTasks builds for a task: the task its handlers close over and
\* checkbox.checked = !!task.completed
TaskCard(task) == [task |-> task, checked |-> task.completed # 0]

\* What runs when renderNotes was called: one fetch
renderNotes(n) == Fetch(n, "GET /api/notes", 0, NoBody, "renderNotes")

\* What runs when renderTasks was called: one fetch
renderTasks(n) == Fetch(n, "GET /api/tasks", 0, NoBody, "renderTasks")

\* The page as the script leaves it when it has run: loadMe() has called fetch
InitPage(t) ==
    /\ location = "/"
    /\ tokenCookie = t
    /\ fetchSeq = 1
    /\ net = {[fid |-> 1, request |-> Request("GET /api/me", NoHeader, t, 0, NoBody),
               state |-> "sent", response |-> NoResponse, then |-> "loadMe"]}
    /\ userName = <<>>
    /\ notesList = <<>>
    /\ tasksList = <<>>

\* The server handles a fetch call of the page
Serve(m) ==
    /\ m.state = "sent"
    /\ \/ Me(m.request)
       \/ NotesGet(m.request)
       \/ NotesPost(m.request)
       \/ NotesPut(m.request)
       \/ NotesDelete(m.request)
       \/ TasksGet(m.request)
       \/ TasksPost(m.request)
       \/ TasksPut(m.request)
       \/ TasksDelete(m.request)
    /\ net' = (net \ {m}) \cup {[m EXCEPT !.state = "answered", !.response = res']}
    /\ UNCHANGED <<location, tokenCookie, fetchSeq, userName, notesList, tasksList>>

\* The network drops a fetch call before the server sees it: fetch rejects
Fail(m) ==
    /\ m.state = "sent"
    /\ net' = (net \ {m}) \cup {[m EXCEPT !.state = "failed"]}
    /\ UNCHANGED <<server, location, tokenCookie, fetchSeq, userName, notesList, tasksList>>

\* The fetch calls made by the code that awaited m, numbered from n
Continued(m, n) ==
    IF m.then = "loadMe" THEN {renderNotes(n), renderTasks(n + 1)}
    ELSE IF m.then \in {"note-form", "note edit", "note delete"} /\ Resolves(m)
    THEN {renderNotes(n)}
    ELSE IF m.then \in {"task-form", "task edit", "task delete"} /\ Resolves(m)
    THEN {renderTasks(n)}
    ELSE {}

\* A fetch call settles: api() and the code awaiting it run to their next await
Complete(m) ==
    /\ m.state # "sent"
    /\ tokenCookie' =
          IF m.state = "answered" /\ m.response.cookie[1] = "set" THEN m.response.cookie[2]
          ELSE IF m.state = "answered" /\ m.response.cookie[1] = "clear" THEN NoToken
          ELSE tokenCookie
    /\ location' =
          IF Redirects(m) THEN "/signin" ELSE location
    /\ userName' =
          IF m.then = "loadMe" /\ Resolves(m) THEN m.response.rows[1].name ELSE userName
    /\ notesList' =
          IF m.then = "renderNotes" /\ Resolves(m)
          THEN ReplaceList(notesList, [i \in DOMAIN m.response.rows |-> NoteCard(m.response.rows[i])])
          ELSE notesList
    /\ tasksList' =
          IF m.then = "renderTasks" /\ Resolves(m)
          THEN ReplaceList(tasksList, [i \in DOMAIN m.response.rows |-> TaskCard(m.response.rows[i])])
          ELSE tasksList
    /\ LET calls == Continued(m, fetchSeq + 1) IN
       /\ fetchSeq + Cardinality(calls) <= MaxFetches
       /\ fetchSeq' = fetchSeq + Cardinality(calls)
       /\ net' = (net \ {m}) \cup calls
    /\ UNCHANGED server

\* The page makes one more fetch call
Call(op, id, body, then) ==
    /\ location = "/"
    /\ fetchSeq < MaxFetches
    /\ fetchSeq' = fetchSeq + 1
    /\ net' = net \cup {Fetch(fetchSeq + 1, op, id, body, then)}

\* checkbox.onchange of the i-th task row: the browser has flipped the box
ToggleCheckbox(i) ==
    /\ tasksList' = [tasksList EXCEPT ![i].checked = ~@]
    /\ Call("PUT /api/tasks/:id", tasksList[i].task.id,
            [NoBody EXCEPT !.completed = IF tasksList'[i].checked THEN JTrue ELSE JFalse],
            "checkbox.onchange")
    /\ UNCHANGED <<server, location, tokenCookie, userName, notesList>>

\* submit of #note-form with the two inputs' values
NoteFormSubmit(titleInput, contentInput) ==
    LET title == Trim(titleInput)
        content == Trim(contentInput)
    IN
    /\ location = "/"
    /\ IF ~Truthy(JString(title)) \/ ~Truthy(JString(content))
       THEN UNCHANGED <<net, fetchSeq>>
       ELSE Call("POST /api/notes", 0,
                 [NoBody EXCEPT !.title = JString(title), !.content = JString(content)],
                 "note-form")
    /\ UNCHANGED <<server, location, tokenCookie, userName, notesList, tasksList>>

\* submit of #task-form
TaskFormSubmit(titleInput) ==
    LET title == Trim(titleInput) IN
    /\ location = "/"
    /\ IF ~Truthy(JString(title))
       THEN UNCHANGED <<net, fetchSeq>>
       ELSE Call("POST /api/tasks", 0, [NoBody EXCEPT !.title = JString(title)], "task-form")
    /\ UNCHANGED <<server, location, tokenCookie, userName, notesList, tasksList>>

\* click on Edit of the i-th note card; the prompts answer null on Cancel
NoteEdit(i, title, content) ==
    /\ location = "/"
    /\ IF title = JNull \/ content = JNull
       THEN UNCHANGED <<net, fetchSeq>>
       ELSE Call("PUT /api/notes/:id", notesList[i].id,
                 [NoBody EXCEPT !.title = title, !.content = content], "note edit")
    /\ UNCHANGED <<server, location, tokenCookie, userName, notesList, tasksList>>

\* click on Delete of the i-th note card
NoteDelete(i, confirmed) ==
    /\ location = "/"
    /\ IF ~confirmed
       THEN UNCHANGED <<net, fetchSeq>>
       ELSE Call("DELETE /api/notes/:id", notesList[i].id, NoBody, "note delete")
    /\ UNCHANGED <<server, location, tokenCookie, userName, notesList, tasksList>>

\* click on Edit of the i-th task row
TaskEdit(i, t) ==
    /\ location = "/"
    /\ IF t = JNull
       THEN UNCHANGED <<net, fetchSeq>>
       ELSE Call("PUT /api/tasks/:id", tasksList[i].task.id,
                 [NoBody EXCEPT !.title = t], "task edit")
    /\ UNCHANGED <<server, location, tokenCookie, userName, notesList, tasksList>>

\* click on Delete of the i-th task row
TaskDelete(i, confirmed) ==
    /\ location = "/"
    /\ IF ~confirmed
       THEN UNCHANGED <<net, fetchSeq>>
       ELSE Call("DELETE /api/tasks/:id", tasksList[i].task.id, NoBody, "task delete")
    /\ UNCHANGED <<server, location, tokenCookie, userName, notesList, tasksList>>

----------------------------------------------------------------------------
(* The page against a server with two accounts *)

Inputs == {<<" ">>, <<"t", " ">>}
Prompts == {JNull, JString(<<"u">>)}

\* The server as the page may find it: the database of two accounts with at
\* most one note and one task in it
InitServer(someNotes, someTasks) ==
    /\ users = TwoAccounts
    /\ userSeq = 2
    /\ notes \in someNotes
    /\ noteSeq = Cardinality(notes)
    /\ tasks \in someTasks
    /\ taskSeq = Cardinality(tasks)
    /\ now = 0
    /\ hashing = <<>>
    /\ req = NoRequest
    /\ res = NoResponse

\* Page load, with or without a session
InitLoad ==
    /\ InitServer({{}, {NoteRow(1, 1, <<"t">>, <<"c">>, 0, 0)}, {NoteRow(1, 2, <<"t">>, <<"c">>, 0, 0)}},
                  {{}, {TaskRow(1, 1, <<"t">>, 0, 0, 0)}, {TaskRow(1, 2, <<"t">>, 1, 0, 0)}})
    /\ \E t \in {NoToken, ExpiredToken, SessionToken(1), SessionToken(2)} : InitPage(t)

NextLoad ==
    \/ \E m \in net : Serve(m)
    \/ \E m \in net : Fail(m)
    \/ \E m \in net : Complete(m)

SpecLoad == InitLoad /\ [][NextLoad]_vars

\* The page of account 1 in use
InitClient ==
    /\ InitServer({{}, {NoteRow(1, 1, <<"t">>, <<"c">>, 0, 0)}},
                  {{TaskRow(1, 1, <<"t">>, 0, 0, 0)}})
    /\ InitPage(SessionToken(1))

NextClient ==
    \/ \E m \in net : Serve(m)
    \/ \E m \in net : Complete(m)
    \/ \E i \in DOMAIN tasksList : ToggleCheckbox(i)
    \/ \E t, c \in Inputs : NoteFormSubmit(t, c)
    \/ \E t \in Inputs : TaskFormSubmit(t)
    \/ \E i \in DOMAIN notesList : \E t, c \in Prompts : NoteEdit(i, t, c)
    \/ \E i \in DOMAIN notesList : \E confirmed \in BOOLEAN : NoteDelete(i, confirmed)
    \/ \E i \in DOMAIN tasksList : \E t \in Prompts : TaskEdit(i, t)
    \/ \E i \in DOMAIN tasksList : \E confirmed \in BOOLEAN : TaskDelete(i, confirmed)

SpecClient == InitClient /\ [][NextClient]_vars

----------------------------------------------------------------------------
(* Properties of the API *)

\* A field of a JSON body that is missing, null, or a string that is empty
\* once trimmed
Blank(v) == v[1] # "string" \/ Trim(v[2]) = <<>>

\* The handler of the step's request ran for account `caller`: the rows of
\* `table` other accounts own are as they were, a list holds none of them, and
\* an update or delete addressed to one of them is answered 404
Isolated(table, table2, caller, listOp, writeOps) ==
    /\ \A row \in table : row.user_id # caller => row \in table2
    /\ req'.op = listOp =>
          \A i \in DOMAIN res'.rows :
             \A row \in table : row.id = res'.rows[i].id => row.user_id = caller
    /\ (req'.op \in writeOps /\ \E row \in table : row.id = req'.id /\ row.user_id # caller)
          => res'.status = 404 /\ table2 = table

\* C1: a request authenticated as account B never changes or removes a note
\* or task of another account A, B's lists never hold a record of A, and B's
\* update or delete addressed to the id of A's record is answered 404.
C1_Isolation ==
    [][req'.userId # 0 =>
          /\ Isolated(notes, notes', req'.userId, "GET /api/notes",
                      {"PUT /api/notes/:id", "DELETE /api/notes/:id"})
          /\ Isolated(tasks, tasks', req'.userId, "GET /api/tasks",
                      {"PUT /api/tasks/:id", "DELETE /api/tasks/:id"})]_vars

\* Account 2 addressed an update to a note of account 1 and a 404 came back
C1_Witness ==
    /\ req.op = "PUT /api/notes/:id"
    /\ req.userId = 2
    /\ \E n \in notes : n.id = req.id /\ n.user_id = 1
    /\ res.status = 404

\* C2: two signups with the same email and all three fields present: at most
\* one account with that email exists, and the one that completes when the
\* email is already registered is answered 409 and creates nothing.
C2_SecondSignupConflict ==
    [][(req'.op = "POST /api/auth/signup" /\ <<req', res'>> # <<req, res>>
        /\ Truthy(req'.body.name) /\ Truthy(req'.body.email) /\ Truthy(req'.body.password))
       => /\ \A u, v \in users' : u.email = v.email => u = v
          /\ (\E u \in users : u.email = req'.body.email[2])
                => res'.status = 409 /\ users' = users]_vars

\* The token a request presents: the Bearer token of the Authorization
\* header, or else the token cookie
Presented(r) ==
    IF r.authorization[1] = "Bearer" THEN r.authorization[2] ELSE r.cookie

\* C3: on every protected endpoint a request that presents no token is
\* answered 401 "Unauthorized", one whose token is expired, forged or malformed
\* is answered 401 with another message, in both cases the handler does not
\* run and the store is unchanged; otherwise the handler runs with the account
\* id of the token.
C3_Middleware ==
    [][LET token == Presented(req') IN
       IF token = NoToken
       THEN /\ res'.status = 401 /\ res'.error = "Unauthorized"
            /\ req'.userId = 0 /\ UNCHANGED store
       ELSE IF token \in {ExpiredToken, ForgedToken, MalformedToken}
       THEN /\ res'.status = 401 /\ res'.error # "Unauthorized"
            /\ req'.userId = 0 /\ UNCHANGED store
       ELSE /\ token = SessionToken(req'.userId)
            /\ res'.status # 401]_vars

\* A forged cookie under a non-Bearer header was turned away
C3_Witness ==
    /\ req.op = "DELETE /api/tasks/:id"
    /\ req.authorization[1] = "Basic"
    /\ req.cookie = ForgedToken
    /\ \E t \in tasks : t.id = req.id
    /\ res.status = 401
    /\ res.error = "Invalid or expired token"

\* C4: every stored note has a non-empty title and content and every stored
\* task a non-empty title.
C4_NonEmptyFields ==
    /\ \A n \in notes : n.title # <<>> /\ n.content # <<>>
    /\ \A t \in tasks : t.title # <<>>

\* The rows a create request added to a table
Inserted(table, table2) == table2 \ table

\* C5: a create request with a blank title (or, for notes, content) is answered
\* 400 and inserts nothing; any other inserts exactly one row, owned by the
\* caller, and is answered 201 with it.
C5_CreateValidates ==
    [][/\ (req'.op = "POST /api/notes" /\ now' = now) =>
             IF Blank(req'.body.title) \/ Blank(req'.body.content)
             THEN res'.status = 400 /\ notes' = notes
             ELSE /\ res'.status = 201
                  /\ notes \subseteq notes'
                  /\ \E n \in Inserted(notes, notes') :
                        /\ Inserted(notes, notes') = {n}
                        /\ n.user_id = req'.userId
                        /\ res'.rows = <<NoteColumns(n)>>
       /\ (req'.op = "POST /api/tasks" /\ now' = now) =>
             IF Blank(req'.body.title)
             THEN res'.status = 400 /\ tasks' = tasks
             ELSE /\ res'.status = 201
                  /\ tasks \subseteq tasks'
                  /\ \E t \in Inserted(tasks, tasks') :
                        /\ Inserted(tasks, tasks') = {t}
                        /\ t.user_id = req'.userId
                        /\ res'.rows = <<TaskColumns(t)>>]_vars

\* A field of an update body that is omitted or null
Absent(v) == v[1] \in {"undefined", "null"}

\* C6: a successful update changes only the fields its body holds: an omitted
\* or null title, content or completed keeps the stored value, and id, owner
\* and created_at never change.
C6_PartialUpdate ==
    [][/\ (req'.op = "PUT /api/notes/:id" /\ res'.status = 200 /\ now' = now) =>
             \A n \in notes : n.id = req'.id =>
                \E m \in notes' :
                   /\ m.id = n.id /\ m.user_id = n.user_id /\ m.created_at = n.created_at
                   /\ Absent(req'.body.title) => m.title = n.title
                   /\ Absent(req'.body.content) => m.content = n.content
       /\ (req'.op = "PUT /api/tasks/:id" /\ res'.status = 200 /\ now' = now) =>
             \A t \in tasks : t.id = req'.id =>
                \E m \in tasks' :
                   /\ m.id = t.id /\ m.user_id = t.user_id /\ m.created_at = t.created_at
                   /\ Absent(req'.body.title) => m.title = t.title
                   /\ Absent(req'.body.completed) => m.completed = t.completed]_vars

----------------------------------------------------------------------------
(* Properties of the page *)

\* C8: at start-up the two list requests are made only once the profile
\* request has completed successfully; when it fails none is made.
C8_ListsAfterProfile ==
    fetchSeq > 1 =>
        /\ \A m \in net : m.then # "loadMe"
        /\ userName # <<>>

\* The i-th task row shows what the server stores for its task
InSync(i) ==
    \A t \in tasks : t.id = tasksList[i].task.id => (tasksList[i].checked <=> t.completed # 0)

\* C9 as stated: once no toggle request is outstanding, every checkbox shows
\* the completed flag the server stores for its task.
C9_ToggleSync ==
    (\A m \in net : m.then # "checkbox.onchange") => \A i \in DOMAIN tasksList : InSync(i)

\* C9 as amended: every toggle sends the box's new checked state, and an
\* update answered 200 leaves the stored completed flag equal to the state it
\* carried, so that the flag is that of the toggle the server handled last.
C9_LastHandledToggleWins ==
    [][/\ \A m \in net' : (m.fid > fetchSeq /\ m.then = "checkbox.onchange") =>
             \E i \in DOMAIN tasksList :
                /\ tasksList[i].task.id = m.request.id
                /\ tasksList'[i].checked = ~tasksList[i].checked
                /\ m.request.body.completed = IF tasksList'[i].checked THEN JTrue ELSE JFalse
       /\ (req'.op = "PUT /api/tasks/:id" /\ res'.status = 200
           /\ req'.body.completed \in {JTrue, JFalse}) =>
             \A t \in tasks' : t.id = req'.id => (t.completed # 0 <=> req'.body.completed = JTrue)
      ]_vars

\* Every toggle has completed, the server handled the one that checked the box
\* last, and the box is unchecked
C9_Witness ==
    /\ \A m \in net : m.then # "checkbox.onchange"
    /\ req.op = "PUT /api/tasks/:id"
    /\ req.body.completed = JTrue
    /\ res.status = 200
    /\ \E i \in DOMAIN tasksList :
          /\ tasksList[i].task.id = req.id
          /\ ~tasksList[i].checked
          /\ \E t \in tasks : t.id = req.id /\ t.completed = 1

\* C10: when a list render finishes, its container holds the records of its
\* own response, one element each, in the order of the response.
C10_RenderReplaces ==
    [][\A m \in net : (m \notin net' /\ Resolves(m)) =>
          /\ m.then = "renderNotes" =>
                notesList' = [i \in DOMAIN m.response.rows |-> NoteCard(m.response.rows[i])]
          /\ m.then = "renderTasks" =>
                /\ Len(tasksList') = Len(m.response.rows)
                /\ \A i \in DOMAIN tasksList' : tasksList'[i].task = m.response.rows[i]
      ]_vars

\* A later render of the notes has finished while the page's first one, whose
\* response differs, is still outstanding
C10_Witness ==
    /\ notesList # <<>>
    /\ \E m \in net :
          /\ m.fid = 2
          /\ m.then = "renderNotes"
          /\ Resolves(m)
          /\ m.response.rows # notesList

====
